---- MODULE Spec2Model ----
(***************************************************************************)
(* Model of the zefiro workload dispatch-and-lifecycle code:                *)
(*   - JobMonitor (zefiro-kube-controller/src/job.rs): the registry of     *)
(*     live workload names, guarded by an async lock and a list mutex;     *)
(*   - KubernetesClient (zefiro-kube-service/src/k8s.rs): submit, delete,  *)
(*     follow_logs, wait_for_completion, handle_completion;                *)
(*   - KubeService::run (zefiro-pipeline and zefiro-job service.rs): the   *)
(*     dispatch loop.                                                      *)
(***************************************************************************)
EXTENDS Integers, Sequences, FiniteSets, TLC

(***************************************************************************)
(* Bounds of the model.                                                    *)
(***************************************************************************)
NumProcs == 2
MaxOps == 4
MaxPolls == 2
MaxChunks == 2
MaxNow == 1
MaxMsgs == 3
MaxCalls == 3

Procs == 1..NumProcs
PodIds == {"a", "b"}
NoProc == 0

VARIABLES
    \* ---- JobMonitor ----
    pod_names,      \* JobMonitor.pod_names: Vec<String>
    lock,           \* JobMonitor.lock (tokio Mutex): holder or NoProc
    inner,          \* the std Mutex around pod_names: holder or NoProc
    rpc,            \* position of each caller inside add/remove/cleanup
    rarg,           \* the pod_name argument of the running add/remove
    ci,             \* cleanup: index of the iterator over pod_names
    attempted,      \* cleanup: delete_pod calls made by the running/last sweep
    hist,           \* add/remove/cleanup bodies in the order they ran
    nops,           \* number of calls started
    \* ---- KubernetesClient and the cluster it talks to ----
    pod,            \* KubernetesClient.pod: Option<Pod> (by name)
    completion_result, \* KubernetesClient.completion_result: Option<..>
    tool_log,       \* KubernetesClient.tool_log: Vec<LogEntry>
    envv,           \* environment variable CALRISSIAN_DELETE_PODS
    now,            \* wall clock read by Utc::now()
    spc, sres,      \* submit_pod: position and returned value
    wpc, wres,      \* wait_for_completion: position and returned value
    fpc, fres,      \* follow_logs: position and returned value
    polls,          \* responses api.get gave wait_for_completion (last kept,
                    \* with the number of non-terminal ones before it)
    deletes,        \* api.delete calls of delete_pod_name with their results
    chunks_read,    \* items the log stream yielded to follow_logs
    \* ---- KubeService::run ----
    crate,          \* which crate's KubeService runs: "pipeline" or "job"
    inbox,          \* requests waiting on the NATS endpoint
    arrived,        \* number of requests that have arrived so far
    stopped,        \* the endpoint's stream has been closed
    dpc,            \* position of run()
    request,        \* the request being launched
    jobs,           \* Jobs the cluster accepted, in creation order
    failed,         \* requests whose decoding or submission failed
    \* ---- JobBuilder and should_delete_pod as functions of their inputs ----
    args,           \* the arguments given to JobBuilder::new
    job,            \* Option<Job>: what build() / create() returned
    should_delete   \* Option<bool>: what should_delete_pod() returned

rvars == <<pod_names, lock, inner, rpc, rarg, ci, attempted, hist, nops>>

kvars == <<pod, completion_result, tool_log, envv, now, spc, sres, wpc, wres,
           fpc, fres, polls, deletes, chunks_read>>

dvars == <<crate, inbox, arrived, stopped, dpc, request, jobs, failed>>

bvars == <<args, job, should_delete>>

vars == <<rvars, kvars, dvars, bvars>>

(***************************************************************************)
(* Vec helpers used by JobMonitor.                                         *)
(***************************************************************************)
\* Vec::iter().position(|name| name == pod_name): first index or 0 for None
position(names, pod_name) ==
    IF \E i \in 1..Len(names) : names[i] = pod_name
    THEN CHOOSE i \in 1..Len(names) :
            /\ names[i] = pod_name
            /\ \A j \in 1..(i - 1) : names[j] # pod_name
    ELSE 0

\* Vec::remove(index): drops that element and shifts the rest left
vec_remove(names, index) ==
    [i \in 1..(Len(names) - 1) |-> IF i < index THEN names[i] ELSE names[i + 1]]

\* mutant: the push is lost
add_body_lost(names, pod_name) == names

\* body of JobMonitor::add once both locks are held
add_body(names, pod_name) == Append(names, pod_name)

\* mutant: remove that pops the last entry instead of the matching one
remove_body_pop(names, pod_name) ==
    IF position(names, pod_name) # 0
    THEN SubSeq(names, 1, Len(names) - 1)
    ELSE names

\* mutant: remove that drops every occurrence
remove_body_all(names, pod_name) ==
    SelectSeq(names, LAMBDA name : name # pod_name)

\* body of JobMonitor::remove once both locks are held
remove_body(names, pod_name) ==
    IF position(names, pod_name) # 0
    THEN vec_remove(names, position(names, pod_name))
    ELSE names

(***************************************************************************)
(* JobMonitor::add                                                         *)
(***************************************************************************)
add_call(p, pod_name) ==
    /\ rpc[p] = "idle"
    /\ nops < MaxOps
    /\ rpc' = [rpc EXCEPT ![p] = "add_wait"]
    /\ rarg' = [rarg EXCEPT ![p] = pod_name]
    /\ nops' = nops + 1
    /\ UNCHANGED <<pod_names, lock, inner, ci, attempted, hist, kvars, dvars, bvars>>

\* mutant: add that does not wait for the async lock
add_acquire_nolock(p) ==
    /\ rpc[p] = "add_wait"
    /\ lock' = p
    /\ rpc' = [rpc EXCEPT ![p] = "add_locked"]
    /\ UNCHANGED <<pod_names, inner, rarg, ci, attempted, hist, nops, kvars, dvars, bvars>>

\* self.lock.lock().await
add_acquire(p) ==
    /\ rpc[p] = "add_wait"
    /\ lock = NoProc
    /\ lock' = p
    /\ rpc' = [rpc EXCEPT ![p] = "add_locked"]
    /\ UNCHANGED <<pod_names, inner, rarg, ci, attempted, hist, nops, kvars, dvars, bvars>>

\* mutant: the async guard is not dropped when add returns
add_push_keep_lock(p) ==
    /\ rpc[p] = "add_locked"
    /\ inner = NoProc
    /\ pod_names' = add_body(pod_names, rarg[p])
    /\ hist' = Append(hist, <<"add", rarg[p]>>)
    /\ rpc' = [rpc EXCEPT ![p] = "idle"]
    /\ UNCHANGED <<lock, inner, rarg, ci, attempted, nops, kvars, dvars, bvars>>

\* self.pod_names.lock().unwrap(); push; both guards dropped on return
add_push(p) ==
    /\ rpc[p] = "add_locked"
    /\ inner = NoProc
    /\ pod_names' = add_body(pod_names, rarg[p])
    /\ hist' = Append(hist, <<"add", rarg[p]>>)
    /\ lock' = NoProc
    /\ rpc' = [rpc EXCEPT ![p] = "idle"]
    /\ UNCHANGED <<inner, rarg, ci, attempted, nops, kvars, dvars, bvars>>

(***************************************************************************)
(* JobMonitor::remove                                                      *)
(***************************************************************************)
remove_call(p, pod_name) ==
    /\ rpc[p] = "idle"
    /\ nops < MaxOps
    /\ rpc' = [rpc EXCEPT ![p] = "remove_wait"]
    /\ rarg' = [rarg EXCEPT ![p] = pod_name]
    /\ nops' = nops + 1
    /\ UNCHANGED <<pod_names, lock, inner, ci, attempted, hist, kvars, dvars, bvars>>

\* self.lock.lock().await
remove_acquire(p) ==
    /\ rpc[p] = "remove_wait"
    /\ lock = NoProc
    /\ lock' = p
    /\ rpc' = [rpc EXCEPT ![p] = "remove_locked"]
    /\ UNCHANGED <<pod_names, inner, rarg, ci, attempted, hist, nops, kvars, dvars, bvars>>

\* lock the list, remove the first match or warn; guards dropped on return
remove_take(p) ==
    /\ rpc[p] = "remove_locked"
    /\ inner = NoProc
    /\ pod_names' = remove_body(pod_names, rarg[p])
    /\ hist' = Append(hist, <<"remove", rarg[p]>>)
    /\ lock' = NoProc
    /\ rpc' = [rpc EXCEPT ![p] = "idle"]
    /\ UNCHANGED <<inner, rarg, ci, attempted, nops, kvars, dvars, bvars>>

(***************************************************************************)
(* JobMonitor::cleanup                                                     *)
(***************************************************************************)
cleanup_call(p) ==
    /\ rpc[p] = "idle"
    /\ nops < MaxOps
    /\ rpc' = [rpc EXCEPT ![p] = "cleanup_wait"]
    /\ attempted' = [attempted EXCEPT ![p] = <<>>]
    /\ nops' = nops + 1
    /\ UNCHANGED <<pod_names, lock, inner, rarg, ci, hist, kvars, dvars, bvars>>

\* let _lock = self.lock.lock().await
cleanup_acquire(p) ==
    /\ rpc[p] = "cleanup_wait"
    /\ lock = NoProc
    /\ lock' = p
    /\ rpc' = [rpc EXCEPT ![p] = "cleanup_client"]
    /\ UNCHANGED <<pod_names, inner, rarg, ci, attempted, hist, nops, kvars, dvars, bvars>>

\* mutant: the Err branch clears the list before it returns
cleanup_client_clears(p) ==
    /\ rpc[p] = "cleanup_client"
    /\ \E ok \in BOOLEAN :
          IF ok
          THEN /\ rpc' = [rpc EXCEPT ![p] = "cleanup_list"]
               /\ UNCHANGED <<lock, pod_names>>
          ELSE /\ rpc' = [rpc EXCEPT ![p] = "idle"]
               /\ lock' = NoProc
               /\ pod_names' = <<>>
    /\ UNCHANGED <<inner, rarg, ci, attempted, hist, nops, kvars, dvars, bvars>>

\* Client::try_default().await: Ok(c) goes on, Err returns (dropping _lock)
cleanup_client(p) ==
    /\ rpc[p] = "cleanup_client"
    /\ \E ok \in BOOLEAN :
          IF ok
          THEN /\ rpc' = [rpc EXCEPT ![p] = "cleanup_list"]
               /\ UNCHANGED lock
          ELSE /\ rpc' = [rpc EXCEPT ![p] = "idle"]
               /\ lock' = NoProc
    /\ UNCHANGED <<pod_names, inner, rarg, ci, attempted, hist, nops, kvars, dvars, bvars>>

\* let mut pod_names = self.pod_names.lock().unwrap(); start of the for loop
cleanup_list(p) ==
    /\ rpc[p] = "cleanup_list"
    /\ inner = NoProc
    /\ inner' = p
    /\ ci' = [ci EXCEPT ![p] = 1]
    /\ rpc' = [rpc EXCEPT ![p] = "cleanup_loop"]
    /\ UNCHANGED <<pod_names, lock, rarg, attempted, hist, nops, kvars, dvars, bvars>>

\* mutant: a failed delete_pod ends the sweep
cleanup_delete_abort(p) ==
    /\ rpc[p] = "cleanup_loop"
    /\ ci[p] <= Len(pod_names)
    /\ \E ok \in BOOLEAN :
          /\ attempted' = [attempted EXCEPT
                ![p] = Append(@, [pod_name |-> pod_names[ci[p]], ok |-> ok])]
          /\ ci' = [ci EXCEPT ![p] = IF ok THEN @ + 1 ELSE Len(pod_names) + 1]
    /\ UNCHANGED <<pod_names, lock, inner, rpc, rarg, hist, nops, kvars, dvars, bvars>>

\* mutant: an iteration that makes no delete_pod call
cleanup_delete_skip(p) ==
    /\ rpc[p] = "cleanup_loop"
    /\ ci[p] <= Len(pod_names)
    /\ ci' = [ci EXCEPT ![p] = @ + 1]
    /\ UNCHANGED <<pod_names, lock, inner, rpc, rarg, attempted, hist, nops,
                   kvars, dvars, bvars>>

\* one iteration: delete_pod(&client, pod_name).await, an Err is logged and
\* ignored.  delete_pod returns Result<(), kube::Error>; both outcomes are
\* modelled.
cleanup_delete(p) ==
    /\ rpc[p] = "cleanup_loop"
    /\ ci[p] <= Len(pod_names)
    /\ \E ok \in BOOLEAN :
          attempted' = [attempted EXCEPT
                ![p] = Append(@, [pod_name |-> pod_names[ci[p]], ok |-> ok])]
    /\ ci' = [ci EXCEPT ![p] = @ + 1]
    /\ UNCHANGED <<pod_names, lock, inner, rpc, rarg, hist, nops, kvars, dvars, bvars>>

\* pod_names.clear(); both guards dropped on return
cleanup_clear(p) ==
    /\ rpc[p] = "cleanup_loop"
    /\ ci[p] > Len(pod_names)
    /\ pod_names' = <<>>
    /\ hist' = Append(hist, <<"cleanup">>)
    /\ lock' = NoProc
    /\ inner' = NoProc
    /\ rpc' = [rpc EXCEPT ![p] = "idle"]
    /\ UNCHANGED <<rarg, ci, attempted, nops, kvars, dvars, bvars>>

(***************************************************************************)
(* The JobMonitor under concurrent callers.                                *)
(***************************************************************************)
NextRegistry ==
    \E p \in Procs :
        \/ \E id \in PodIds : add_call(p, id)
        \/ add_acquire(p)
        \/ add_push(p)
        \/ \E id \in PodIds : remove_call(p, id)
        \/ remove_acquire(p)
        \/ remove_take(p)
        \/ cleanup_call(p)
        \/ cleanup_acquire(p)
        \/ cleanup_client(p)
        \/ cleanup_list(p)
        \/ cleanup_delete(p)
        \/ cleanup_clear(p)

(***************************************************************************)
(* KubernetesClient (k8s.rs).  Option<T> is a sequence: <<>> is None and   *)
(* <<v>> is Some(v).  Strings that the code transforms are sequences of    *)
(* characters.                                                             *)
(***************************************************************************)
None == <<>>
Some(v) == <<v>>

PodName == "job-1"

UpperCase == <<"A", "B", "C", "D", "E", "F", "G", "H", "I", "J", "K", "L", "M",
               "N", "O", "P", "Q", "R", "S", "T", "U", "V", "W", "X", "Y", "Z">>
LowerCase == <<"a", "b", "c", "d", "e", "f", "g", "h", "i", "j", "k", "l", "m",
               "n", "o", "p", "q", "r", "s", "t", "u", "v", "w", "x", "y", "z">>

\* mutant: the value is compared as it is
to_lowercase_asis(str) == str

\* str::to_lowercase
to_lowercase(str) ==
    [i \in 1..Len(str) |->
        IF \E k \in 1..Len(UpperCase) : UpperCase[k] = str[i]
        THEN LowerCase[CHOOSE k \in 1..Len(UpperCase) : UpperCase[k] = str[i]]
        ELSE str[i]]

\* values of CALRISSIAN_DELETE_PODS: unset, or set to a string
EnvValues == { None,
               Some(<<"N", "o">>),
               Some(<<"0">>),
               Some(<<"t", "r", "u", "e">>) }

\* mutant: the variable is not consulted
should_delete_pod_always(env) == TRUE

\* KubernetesClient::should_delete_pod; env::var(..).unwrap_or_default()
should_delete_pod(env) ==
    LET value == IF env = None THEN <<>> ELSE env[1]
    IN  to_lowercase(value) \notin { <<"f", "a", "l", "s", "e">>,
                                     <<"n", "o">>,
                                     <<"0">> }

\* outcomes of api.delete: deleted, an API error with its code, or another
\* kube::Error (transport, serialization)
DeleteOutcomes == { [kind |-> "deleted", code |-> 200],
                    [kind |-> "api", code |-> 404],
                    [kind |-> "api", code |-> 500],
                    [kind |-> "other", code |-> 0] }

\* mutant: every API error counts as already deleted
delete_pod_name_any_api(outcome) ==
    IF outcome.kind = "deleted" THEN "Ok"
    ELSE IF outcome.kind = "api" THEN "Ok"
    ELSE "KubeError"

\* mutant: every failure of api.delete is swallowed
delete_pod_name_lenient(outcome) == "Ok"

\* KubernetesClient::delete_pod_name: the match on api.delete's result
delete_pod_name(outcome) ==
    IF outcome.kind = "deleted" THEN "Ok"
    ELSE IF outcome.kind = "api" /\ outcome.code = 404 THEN "Ok"
    ELSE "KubeError"

\* ContainerState.terminated values: exit code, started_at, finished_at
Terminations ==
    { [exit_code |-> e, started_at |-> t[1], finished_at |-> t[2]] :
         e \in {None, Some(0), Some(137)},
         t \in {<<None, None>>, <<Some(1), Some(2)>>} }

\* what status.container_statuses.get(0).state holds
ContainerShapes ==
    { [kind |-> "no_statuses", terminated |-> None],
      [kind |-> "no_state", terminated |-> None],
      [kind |-> "state", terminated |-> None] }
    \cup { [kind |-> "state", terminated |-> Some(t)] : t \in Terminations }

NoShape == [kind |-> "no_statuses", terminated |-> None]

\* results of api.get(&pod_name)
PollResponses ==
    { [kind |-> "err", phase |-> "", cs |-> NoShape],
      [kind |-> "no_status", phase |-> "", cs |-> NoShape],
      [kind |-> "no_phase", phase |-> "", cs |-> NoShape],
      [kind |-> "phase", phase |-> "Pending", cs |-> NoShape],
      [kind |-> "phase", phase |-> "Running", cs |-> NoShape] }
    \cup { [kind |-> "phase", phase |-> ph, cs |-> c] :
              ph \in {"Succeeded", "Failed"}, c \in ContainerShapes }

\* mutant: a pod without status is reported as an error
poll_outcome_strict(r) ==
    IF r.kind \in {"err", "no_status", "no_phase"} THEN "error"
    ELSE IF r.phase = "Succeeded" \/ r.phase = "Failed" THEN "terminal"
    ELSE "retry"

\* wait_for_completion: what one loop iteration does with api.get's result
poll_outcome(r) ==
    IF r.kind = "err" THEN "error"
    ELSE IF r.kind = "phase" /\ (r.phase = "Succeeded" \/ r.phase = "Failed")
    THEN "terminal"
    ELSE "retry"

\* CompletionResult built by handle_completion from a terminated state
CompletionOf(t, log) ==
    [exit_code |-> IF t.exit_code = None THEN -1 ELSE t.exit_code[1],
     cpu |-> None,
     memory |-> None,
     start_time |-> t.started_at,
     finish_time |-> t.finished_at,
     log |-> log]

\* mutant: a result is assembled although the container has not terminated
handle_completion_eager(cs, cr, log) ==
    IF cs.kind # "state" THEN cr
    ELSE IF cs.terminated # None THEN Some(CompletionOf(cs.terminated[1], log))
    ELSE Some(CompletionOf([exit_code |-> None, started_at |-> None,
                            finished_at |-> None], log))

\* the terminal branch of wait_for_completion up to handle_completion: the new
\* value of completion_result given the first container status
handle_completion(cs, cr, log) ==
    IF cs.kind # "state" THEN cr
    ELSE IF cs.terminated # None THEN Some(CompletionOf(cs.terminated[1], log))
    ELSE cr

\* mutant: the missing result is returned as Ok
wait_result_ok(cr) == [tag |-> "Ok", value |-> cr]

\* completion_result.ok_or(IncompleteStatus)
wait_result(cr) ==
    IF cr = None THEN [tag |-> "IncompleteStatus", value |-> None]
    ELSE [tag |-> "Ok", value |-> cr]

NoResult == [tag |-> "none", value |-> None]
Failure(tag) == [tag |-> tag, value |-> None]

\* enum JobStatus
JobStatus == {"Queued", "Running", "Failed", "Done", "Stopping", "Stopped"}

\* the JobStatus the client holds for its pod: KubernetesClient has no field
\* of that type, and no function of the repository constructs a JobStatus
job_status == None

(***************************************************************************)
(* KubernetesClient::submit_pod                                            *)
(***************************************************************************)
\* api.create(..).await?
submit_pod_create ==
    /\ spc = "idle"
    /\ \E ok \in BOOLEAN :
          IF ok
          THEN /\ spc' = "created"
               /\ UNCHANGED sres
          ELSE /\ spc' = "returned"
               /\ sres' = "KubeError"
    /\ UNCHANGED <<rvars, dvars, bvars, pod, completion_result, tool_log, envv, now, wpc,
                   wres, fpc, fres, polls, deletes, chunks_read>>

\* self.pod_monitor.add(pod.clone()).await; *current_pod = Some(pod); Ok(())
submit_pod_register ==
    /\ spc = "created"
    /\ lock = NoProc
    /\ pod_names' = add_body(pod_names, PodName)
    /\ pod' = Some(PodName)
    /\ spc' = "returned"
    /\ sres' = "Ok"
    /\ UNCHANGED <<dvars, bvars, lock, inner, rpc, rarg, ci, attempted, hist, nops,
                   completion_result, tool_log, envv, now, wpc, wres, fpc,
                   fres, polls, deletes, chunks_read>>

(***************************************************************************)
(* KubernetesClient::wait_for_completion                                   *)
(***************************************************************************)
\* mutant: a missing pod is reported as IncompleteStatus
wait_for_completion_call_incomplete ==
    /\ wpc = "idle"
    /\ IF pod = None
       THEN /\ wpc' = "returned"
            /\ wres' = [tag |-> "IncompleteStatus", value |-> None]
       ELSE /\ wpc' = "poll"
            /\ UNCHANGED wres
    /\ UNCHANGED <<rvars, dvars, bvars, pod, completion_result, tool_log, envv, now, spc,
                   sres, fpc, fres, polls, deletes, chunks_read>>

\* the pod name is read, or PodNotSet is returned
wait_for_completion_call ==
    /\ wpc = "idle"
    /\ IF pod = None
       THEN /\ wpc' = "returned"
            /\ wres' = Failure("PodNotSet")
       ELSE /\ wpc' = "poll"
            /\ UNCHANGED wres
    /\ UNCHANGED <<rvars, dvars, bvars, pod, completion_result, tool_log, envv, now, spc,
                   sres, fpc, fres, polls, deletes, chunks_read>>

\* one loop iteration: api.get(&pod_name).await? and the nested if-lets
wait_poll ==
    /\ wpc = "poll"
    /\ \E r \in PollResponses :
          /\ polls' = [last |-> Some(r),
                       retries |-> IF poll_outcome(r) = "retry"
                                   THEN IF polls.retries < MaxPolls
                                        THEN polls.retries + 1
                                        ELSE MaxPolls
                                   ELSE polls.retries]
          /\ CASE poll_outcome(r) = "error" ->
                    /\ wpc' = "returned"
                    /\ wres' = Failure("KubeError")
                    /\ UNCHANGED completion_result
               [] poll_outcome(r) = "retry" ->
                    /\ wpc' = "sleep"
                    /\ UNCHANGED <<wres, completion_result>>
               [] poll_outcome(r) = "terminal" ->
                    /\ completion_result' =
                          handle_completion(r.cs, completion_result, tool_log)
                    /\ IF should_delete_pod(envv)
                       THEN /\ wpc' = "delete"
                            /\ UNCHANGED wres
                       ELSE /\ wpc' = "returned"
                            /\ wres' = wait_result(completion_result')
    /\ UNCHANGED <<rvars, dvars, bvars, pod, tool_log, envv, now, spc, sres, fpc, fres,
                   deletes, chunks_read>>

\* tokio::time::sleep(Duration::from_secs(5)).await
wait_sleep ==
    /\ wpc = "sleep"
    /\ wpc' = "poll"
    /\ UNCHANGED <<rvars, dvars, bvars, pod, completion_result, tool_log, envv, now, spc,
                   sres, wres, fpc, fres, polls, deletes, chunks_read>>

\* self.delete_pod_name(client.clone(), &pod_name).await?
wait_delete ==
    /\ wpc = "delete"
    /\ \E outcome \in DeleteOutcomes :
          /\ deletes' = Append(deletes, [pod_name |-> pod[1],
                                         outcome |-> outcome,
                                         result |-> delete_pod_name(outcome)])
          /\ IF delete_pod_name(outcome) = "Ok"
             THEN /\ wpc' = "remove"
                  /\ UNCHANGED wres
             ELSE /\ wpc' = "returned"
                  /\ wres' = Failure("KubeError")
    /\ UNCHANGED <<rvars, dvars, bvars, pod, completion_result, tool_log, envv, now, spc,
                   sres, fpc, fres, polls, chunks_read>>

\* self.pod_monitor.remove(&pod_name).await; break; the result is returned
wait_remove ==
    /\ wpc = "remove"
    /\ lock = NoProc
    /\ pod_names' = remove_body(pod_names, pod[1])
    /\ wpc' = "returned"
    /\ wres' = wait_result(completion_result)
    /\ UNCHANGED <<dvars, bvars, lock, inner, rpc, rarg, ci, attempted, hist, nops, pod,
                   completion_result, tool_log, envv, now, spc, sres, fpc,
                   fres, polls, deletes, chunks_read>>

(***************************************************************************)
(* KubernetesClient::follow_logs                                           *)
(***************************************************************************)
Whitespace == {" ", "\n"}

\* bytes the stream may carry; "0xFF" stands for a byte that is not valid UTF-8
Chunks == { <<" ", "y", "\n">>, <<"x", "0xFF">> }

\* String::from_utf8_lossy: invalid bytes become U+FFFD
from_utf8_lossy(bytes) ==
    [i \in 1..Len(bytes) |-> IF bytes[i] = "0xFF" THEN "U+FFFD" ELSE bytes[i]]

RECURSIVE trim_start(_)
trim_start(str) ==
    IF str # <<>> /\ Head(str) \in Whitespace THEN trim_start(Tail(str)) ELSE str

RECURSIVE trim_end(_)
trim_end(str) ==
    IF str # <<>> /\ str[Len(str)] \in Whitespace
    THEN trim_end(SubSeq(str, 1, Len(str) - 1))
    ELSE str

\* str::trim
trim(str) == trim_end(trim_start(str))

\* the LogEntry follow_logs builds from one chunk
LogEntryOf(line, time, name) ==
    [timestamp |-> time, pod_name |-> name, entry |-> trim(from_utf8_lossy(line))]

\* the pod name is read, or PodNotSet is returned
follow_logs_call ==
    /\ fpc = "idle"
    /\ IF pod = None
       THEN /\ fpc' = "returned"
            /\ fres' = "PodNotSet"
       ELSE /\ fpc' = "open"
            /\ UNCHANGED fres
    /\ UNCHANGED <<rvars, dvars, bvars, pod, completion_result, tool_log, envv, now, spc,
                   sres, wpc, wres, polls, deletes, chunks_read>>

\* api.log_stream(&pod_name, ..).await?
follow_logs_open ==
    /\ fpc = "open"
    /\ \E ok \in BOOLEAN :
          IF ok
          THEN /\ fpc' = "stream"
               /\ UNCHANGED fres
          ELSE /\ fpc' = "returned"
               /\ fres' = "KubeError"
    /\ UNCHANGED <<rvars, dvars, bvars, pod, completion_result, tool_log, envv, now, spc,
                   sres, wpc, wres, polls, deletes, chunks_read>>

StreamItems ==
    { [kind |-> "chunk", bytes |-> c] : c \in Chunks }
    \cup { [kind |-> "error", bytes |-> <<>>], [kind |-> "end", bytes |-> <<>>] }

\* mutant: the newest entry is put in front
follow_logs_item_prepend(item) ==
    CASE item.kind = "chunk" ->
            /\ tool_log' = <<LogEntryOf(item.bytes, now', pod[1])>> \o tool_log
            /\ UNCHANGED <<fpc, fres>>
      [] item.kind = "error" ->
            /\ fpc' = "returned"
            /\ fres' = "Ok"
            /\ UNCHANGED tool_log
      [] item.kind = "end" ->
            /\ fpc' = "returned"
            /\ fres' = "Ok"
            /\ UNCHANGED tool_log

\* mutant: a read error is returned to the caller
follow_logs_item_fail(item) ==
    CASE item.kind = "chunk" ->
            /\ tool_log' = Append(tool_log, LogEntryOf(item.bytes, now', pod[1]))
            /\ UNCHANGED <<fpc, fres>>
      [] item.kind = "error" ->
            /\ fpc' = "returned"
            /\ fres' = "KubeError"
            /\ UNCHANGED tool_log
      [] item.kind = "end" ->
            /\ fpc' = "returned"
            /\ fres' = "Ok"
            /\ UNCHANGED tool_log

\* the body of the while-let loop for one item of the stream
follow_logs_item(item) ==
    CASE item.kind = "chunk" ->
            /\ tool_log' = Append(tool_log, LogEntryOf(item.bytes, now', pod[1]))
            /\ UNCHANGED <<fpc, fres>>
      [] item.kind = "error" ->
            /\ fpc' = "returned"
            /\ fres' = "Ok"
            /\ UNCHANGED tool_log
      [] item.kind = "end" ->
            /\ fpc' = "returned"
            /\ fres' = "Ok"
            /\ UNCHANGED tool_log

\* log_stream.next().await and the loop body; the wall clock has moved on (or
\* not) since the previous read
follow_logs_next ==
    /\ fpc = "stream"
    /\ \E item \in StreamItems, t \in {now, now + 1} :
          /\ item.kind = "chunk" => Len(chunks_read) < MaxChunks
          /\ t <= MaxNow
          /\ now' = t
          /\ chunks_read' = Append(chunks_read, item)
          /\ follow_logs_item(item)
    /\ UNCHANGED <<rvars, dvars, bvars, pod, completion_result, envv, spc, sres, wpc,
                   wres, polls, deletes>>

(***************************************************************************)
(* KubeService::run and launch_job (zefiro-pipeline and zefiro-job).       *)
(***************************************************************************)
\* payloads that may arrive on the endpoint: bytes that are not UTF-8, text
\* that is not a Message, and well-formed Messages
Payloads ==
    { [utf8 |-> FALSE, shape |-> "none", job_id |-> "", image |-> ""],
      [utf8 |-> TRUE, shape |-> "not_json", job_id |-> "", image |-> ""],
      [utf8 |-> TRUE, shape |-> "message", job_id |-> "job-1",
       image |-> "tool:latest"],
      [utf8 |-> TRUE, shape |-> "message", job_id |-> "job-2",
       image |-> "tool:latest"] }

\* String::from_utf8(payload) then Message::from_string: Some(message) or None
from_string(payload) ==
    IF payload.utf8 /\ payload.shape = "message"
    THEN Some([job_id |-> payload.job_id, image |-> payload.image])
    ELSE None

\* the Job launch_job builds: zefiro-pipeline takes name and image from the
\* message, zefiro-job submits a fixed job whatever the message says
launch_job(c, payload) ==
    IF c = "pipeline"
    THEN [name |-> from_string(payload)[1].job_id,
          image |-> from_string(payload)[1].image]
    ELSE [name |-> "vidjil-job", image |-> "vidjil:latest"]

\* a request arrives on the endpoint
request_arrives ==
    /\ arrived < MaxMsgs
    /\ ~stopped
    /\ \E m \in Payloads : inbox' = Append(inbox, m)
    /\ arrived' = arrived + 1
    /\ UNCHANGED <<rvars, kvars, bvars, crate, stopped, dpc, request, jobs, failed>>

\* the service is stopped: the endpoint's stream ends
endpoint_stops ==
    /\ ~stopped
    /\ stopped' = TRUE
    /\ UNCHANGED <<rvars, kvars, bvars, crate, inbox, arrived, dpc, request, jobs,
                   failed>>

\* endpoint.next().await yields a request; zefiro-pipeline decodes it with
\* unwrap(), zefiro-job passes it on undecoded
run_next ==
    /\ dpc = "next"
    /\ inbox # <<>>
    /\ inbox' = Tail(inbox)
    /\ IF crate = "pipeline" /\ from_string(Head(inbox)) = None
       THEN /\ dpc' = "panicked"
            /\ failed' = Append(failed, Head(inbox))
            /\ UNCHANGED request
       ELSE /\ dpc' = "launch"
            /\ request' = Some(Head(inbox))
            /\ UNCHANGED failed
    /\ UNCHANGED <<rvars, kvars, bvars, crate, arrived, stopped, jobs>>

\* endpoint.next().await yields None: the loop ends and run returns Ok(())
run_end ==
    /\ dpc = "next"
    /\ inbox = <<>>
    /\ stopped
    /\ dpc' = "returned_ok"
    /\ UNCHANGED <<rvars, kvars, bvars, crate, inbox, arrived, stopped, request, jobs,
                   failed>>

\* self.launch_job(message).await?: the Job is built and api.create is awaited
run_launch ==
    /\ dpc = "launch"
    /\ \E ok \in BOOLEAN :
          IF ok
          THEN /\ jobs' = Append(jobs, launch_job(crate, request[1]))
               /\ dpc' = "next"
               /\ UNCHANGED failed
          ELSE /\ dpc' = "returned_err"
               /\ failed' = Append(failed, request[1])
               /\ UNCHANGED jobs
    /\ request' = None
    /\ UNCHANGED <<rvars, kvars, bvars, crate, inbox, arrived, stopped>>

(***************************************************************************)
(* JobBuilder (zefiro-job/src/builder.rs and zefiro-kube-controller/src/   *)
(* job.rs), JobResources and JobPriority.                                  *)
(*                                                                         *)
(* A usize is four 16-bit limbs, most significant first, so that the `as`  *)
(* casts keep their width.  An i64 is the same with a signed first limb;   *)
(* an i32 is an integer.  A BTreeMap is a set of <<key, value>> pairs.     *)
(***************************************************************************)
LimbBase == 65536
TTL_SECONDS == 300

\* a usize below 2^16
usize(n) == <<0, 0, 0, n>>

\* a > b on usize
usize_gt(a, b) ==
    \E i \in 1..4 : a[i] > b[i] /\ \A j \in 1..(i - 1) : a[j] = b[j]

\* `u as i32`: the low 32 bits, read as two's complement
as_i32(u) ==
    IF u[3] >= LimbBase \div 2
    THEN (u[3] - LimbBase) * LimbBase + u[4]
    ELSE u[3] * LimbBase + u[4]

\* `u as i64`: all 64 bits, read as two's complement
as_i64(u) ==
    <<IF u[1] >= LimbBase \div 2 THEN u[1] - LimbBase ELSE u[1], u[2], u[3], u[4]>>

\* values of time_limit: 0, 60, 299, 300, 301, 2^31 - 1, 2^31, 2^32 - 1, 2^32,
\* 2^32 + 301, 2^63 - 1, 2^63, 2^64 - 1
TimeLimits ==
    { usize(0), usize(60), usize(299), usize(300), usize(301),
      <<0, 0, 32767, 65535>>, <<0, 0, 32768, 0>>, <<0, 0, 65535, 65535>>,
      <<0, 1, 0, 0>>, <<0, 1, 0, 301>>,
      <<32767, 65535, 65535, 65535>>, <<32768, 0, 0, 0>>,
      <<65535, 65535, 65535, 65535>> }

DigitChars == <<"0", "1", "2", "3", "4", "5", "6", "7", "8", "9">>

\* Display of an unsigned integer: its decimal digits
RECURSIVE to_string(_)
to_string(n) ==
    IF n < 10 THEN <<DigitChars[n + 1]>>
    ELSE Append(to_string(n \div 10), DigitChars[(n % 10) + 1])

\* Display of an f64 given as integer part and shortest fraction digits
f64_to_string(x) ==
    IF x.frac = <<>> THEN to_string(x.int)
    ELSE to_string(x.int) \o <<".">> \o x.frac

\* JobResources values: (2.0, 1024, 2048), (0.5, 512, 512), (8.0, 10000, 1024)
ResourceValues ==
    { [cpus |-> [int |-> 2, frac |-> <<>>], ram |-> 1024, disk |-> 2048],
      [cpus |-> [int |-> 0, frac |-> <<"5">>], ram |-> 512, disk |-> 512],
      [cpus |-> [int |-> 8, frac |-> <<>>], ram |-> 10000, disk |-> 1024] }

\* mutant: binary suffixes
to_dict_mebi(res) ==
    { <<"memory", to_string(res.ram) \o <<"M", "i">>>>,
      <<"cpu", f64_to_string(res.cpus)>>,
      <<"ephemeral-storage", to_string(res.disk) \o <<"M", "i">>>> }

\* JobResources::to_dict
to_dict(res) ==
    { <<"memory", Append(to_string(res.ram), "M")>>,
      <<"cpu", f64_to_string(res.cpus)>>,
      <<"ephemeral-storage", Append(to_string(res.disk), "M")>> }

Priorities == {"Lowest", "Low", "Medium", "High", "Highest"}

\* JobPriority::to_string
priority_to_string(priority) ==
    CASE priority = "Lowest" -> "lowest"
      [] priority = "Low" -> "low"
      [] priority = "Medium" -> "medium"
      [] priority = "High" -> "high"
      [] priority = "Highest" -> "highest"

\* the argument lists JobBuilder::new is called with
BuilderArgs ==
    [job_name : {"job-1"},
     image_uri : {"tool:latest"},
     container_args : {<<"--x=1">>},
     min_resources : {[cpus |-> [int |-> 2, frac |-> <<>>], ram |-> 1024,
                       disk |-> 2048]},
     max_resources : {None} \cup {Some(r) : r \in ResourceValues},
     priority : Priorities,
     time_limit : TimeLimits]

\* mutant: limits rendered as an empty map when no maximum is given
create_container_empty_limits(name, image, cargs, requests, limits) ==
    [name |-> name,
     image |-> Some(image),
     image_pull_policy |-> Some("Never"),
     args |-> Some(cargs),
     resources |-> Some([limits |-> IF limits = None THEN Some({})
                                    ELSE Some(to_dict(limits[1])),
                         requests |-> Some(to_dict(requests))]),
     volume_mounts |-> Some(<<[name |-> "inputs"], [name |-> "outputs"]>>)]

\* zefiro-job JobBuilder::create_container
create_container(name, image, cargs, requests, limits) ==
    [name |-> name,
     image |-> Some(image),
     image_pull_policy |-> Some("Never"),
     args |-> Some(cargs),
     resources |-> Some([limits |-> IF limits = None THEN None
                                    ELSE Some(to_dict(limits[1])),
                         requests |-> Some(to_dict(requests))]),
     volume_mounts |-> Some(<<[name |-> "inputs"], [name |-> "outputs"]>>)]

\* zefiro-job JobBuilder::new: the ttl_seconds field
ttl_seconds(time_limit) ==
    IF usize_gt(time_limit, usize(TTL_SECONDS)) THEN time_limit
    ELSE usize(TTL_SECONDS)

\* zefiro-job JobBuilder::new(..).build()
build(a) ==
    [by |-> "zefiro-job",
     name |-> Some(a.job_name),
     container |-> create_container(a.job_name, a.image_uri, a.container_args,
                                     a.min_resources, a.max_resources),
     volumes |-> Some(<<"inputs", "outputs">>),
     priority_class_name |-> Some(priority_to_string(a.priority)),
     restart_policy |-> Some("Never"),
     active_deadline_seconds |-> Some(as_i64(a.time_limit)),
     backoff_limit |-> Some(0),
     ttl_seconds_after_finished |-> Some(as_i32(ttl_seconds(a.time_limit)))]

\* zefiro-kube-controller JobBuilder::create_container
controller_create_container(name, image, cargs, limits, requests) ==
    [name |-> name,
     image |-> Some(image),
     image_pull_policy |-> Some("Never"),
     args |-> Some(cargs),
     resources |-> Some([limits |-> Some(IF limits = None THEN {}
                                         ELSE to_dict(limits[1])),
                         requests |-> Some(to_dict(requests))]),
     volume_mounts |-> Some(<<[name |-> "inputs"]>>)]

\* zefiro-kube-controller JobBuilder::new(..).create(); retries is 0
create(a) ==
    [by |-> "zefiro-kube-controller",
     name |-> Some(a.job_name),
     container |-> controller_create_container(a.job_name, a.image_uri,
                       a.container_args, a.max_resources, a.min_resources),
     volumes |-> Some(<<"inputs">>),
     priority_class_name |-> Some(priority_to_string(a.priority)),
     restart_policy |-> Some("Never"),
     active_deadline_seconds |-> Some(as_i64(a.time_limit)),
     backoff_limit |-> Some(as_i32(usize(0))),
     ttl_seconds_after_finished |-> Some(0)]

\* zefiro-job builds a Job from the arguments
builder_build ==
    /\ job = None
    /\ job' = Some(build(args))
    /\ UNCHANGED <<rvars, kvars, dvars, args, should_delete>>

\* zefiro-kube-controller builds a Job from the arguments
builder_create ==
    /\ job = None
    /\ job' = Some(create(args))
    /\ UNCHANGED <<rvars, kvars, dvars, args, should_delete>>

\* the builder is used again with other arguments
builder_again ==
    /\ job # None
    /\ job' = None
    /\ args' \in BuilderArgs
    /\ UNCHANGED <<rvars, kvars, dvars, should_delete>>

(***************************************************************************)
(* should_delete_pod as a function of the environment.                     *)
(***************************************************************************)
\* every spelling of a lower-case word in upper and lower case
RECURSIVE CaseVariants(_)
CaseVariants(word) ==
    IF word = <<>> THEN {<<>>}
    ELSE LET c == Head(word)
             up == IF \E k \in 1..Len(LowerCase) : LowerCase[k] = c
                   THEN UpperCase[CHOOSE k \in 1..Len(LowerCase) : LowerCase[k] = c]
                   ELSE c
         IN  {<<x>> \o rest : x \in {c, up}, rest \in CaseVariants(Tail(word))}

\* values of CALRISSIAN_DELETE_PODS the function is applied to
EnvInputs ==
    {None}
    \cup {Some(v) : v \in CaseVariants(<<"f", "a", "l", "s", "e">>)}
    \cup {Some(v) : v \in CaseVariants(<<"n", "o">>)}
    \cup {Some(v) : v \in CaseVariants(<<"y", "e", "s">>)}
    \cup {Some(v) : v \in CaseVariants(<<"o", "f", "f">>)}
    \cup { Some(<<>>), Some(<<"0">>), Some(<<"1">>), Some(<<"0", "0">>),
           Some(<<"t", "r", "u", "e">>), Some(<<"T", "R", "U", "E">>),
           Some(<<"n">>), Some(<<"f">>), Some(<<"f", "a", "l", "s">>),
           Some(<<"f", "a", "l", "s", "e", "e">>), Some(<<" ", "n", "o">>),
           Some(<<"n", "o", " ">>), Some(<<"f", "a", "l", "s", "e", "\n">>),
           Some(<<"n", "o", "p", "e">>), Some(<<"-", "0">>),
           Some(<<"0", ".", "0">>) }

\* Self::should_delete_pod() is called
should_delete_pod_call ==
    /\ should_delete = None
    /\ should_delete' = Some(should_delete_pod(envv))
    /\ UNCHANGED <<rvars, dvars, args, job, pod, completion_result, tool_log,
                   envv, now, spc, sres, wpc, wres, fpc, fres, polls, deletes,
                   chunks_read>>

\* the variable is set or removed (std::env) before the next call
env_changes ==
    /\ should_delete # None
    /\ should_delete' = None
    /\ envv' \in EnvInputs
    /\ UNCHANGED <<rvars, dvars, args, job, pod, completion_result, tool_log,
                   now, spc, sres, wpc, wres, fpc, fres, polls, deletes,
                   chunks_read>>

(***************************************************************************)
(* Initial states and specifications.                                      *)
(***************************************************************************)
InitRegistry ==
    /\ pod_names = <<>>
    /\ lock = NoProc
    /\ inner = NoProc
    /\ rpc = [p \in Procs |-> "idle"]
    /\ rarg = [p \in Procs |-> "a"]
    /\ ci = [p \in Procs |-> 1]
    /\ attempted = [p \in Procs |-> <<>>]
    /\ hist = <<>>
    /\ nops = 0

\* KubernetesClient::new
InitClient ==
    /\ pod = None
    /\ completion_result = None
    /\ tool_log = <<>>
    /\ now = 0
    /\ spc = "idle"
    /\ sres = "none"
    /\ wpc = "idle"
    /\ wres = NoResult
    /\ fpc = "idle"
    /\ fres = "none"
    /\ polls = [last |-> None, retries |-> 0]
    /\ deletes = <<>>
    /\ chunks_read = <<>>

\* KubeService::new, before run() is called
InitService ==
    /\ inbox = <<>>
    /\ arrived = 0
    /\ stopped = FALSE
    /\ dpc = "next"
    /\ request = None
    /\ jobs = <<>>
    /\ failed = <<>>

\* no JobBuilder call and no should_delete_pod call under way
InitBuilder ==
    /\ args = CHOOSE a \in BuilderArgs : TRUE
    /\ job = None
    /\ should_delete = None

\* concurrent callers of one JobMonitor
InitMonitor ==
    /\ InitRegistry /\ InitClient /\ envv = None
    /\ InitService /\ crate = "pipeline" /\ InitBuilder

SpecRegistry == InitMonitor /\ [][NextRegistry]_vars

\* the steps of a call that has started, lock acquisitions included
Proceed(p) ==
    \/ add_acquire(p)
    \/ add_push(p)
    \/ remove_acquire(p)
    \/ remove_take(p)
    \/ cleanup_acquire(p)
    \/ cleanup_client(p)
    \/ cleanup_list(p)
    \/ cleanup_delete(p)
    \/ cleanup_clear(p)

\* the tokio runtime keeps polling a call that has started, Client::try_default
\* and delete_pod return, and a lock that stays free is handed to a waiter.
\* Whether a caller starts a call is left open.
\* add, remove and cleanup calls, MaxCalls of them at most
NextCalls == NextRegistry /\ nops' <= MaxCalls

FairSpecRegistry ==
    /\ InitMonitor
    /\ [][NextCalls]_vars
    /\ \A p \in Procs : WF_vars(Proceed(p))

NextWatch ==
    \/ submit_pod_create
    \/ submit_pod_register
    \/ wait_for_completion_call
    \/ wait_poll
    \/ wait_sleep
    \/ wait_delete
    \/ wait_remove
    \/ follow_logs_call
    \/ follow_logs_open
    \/ follow_logs_next

InitWatch ==
    /\ InitRegistry /\ InitClient /\ envv \in EnvValues
    /\ InitService /\ crate = "pipeline" /\ InitBuilder

\* one KubernetesClient: submit_pod, follow_logs and wait_for_completion run
\* as concurrent tasks against a cluster that may answer anything
SpecWatch == InitWatch /\ [][NextWatch]_vars

\* the tokio runtime keeps scheduling a task that is ready to run
FairSpecWatch ==
    /\ SpecWatch
    /\ WF_vars(wait_for_completion_call \/ wait_poll \/ wait_sleep
               \/ wait_delete \/ wait_remove)
    /\ WF_vars(submit_pod_create \/ submit_pod_register)

NextDispatch ==
    \/ request_arrives
    \/ endpoint_stops
    \/ run_next
    \/ run_end
    \/ run_launch

InitDispatch ==
    /\ InitRegistry /\ InitClient /\ envv = None
    /\ InitService /\ crate \in {"pipeline", "job"} /\ InitBuilder

\* one KubeService running its dispatch loop
SpecDispatch == InitDispatch /\ [][NextDispatch]_vars

NextBuilder ==
    \/ builder_build
    \/ builder_create
    \/ builder_again

InitJobBuilder ==
    /\ InitRegistry /\ InitClient /\ envv = None
    /\ InitService /\ crate = "pipeline"
    /\ args \in BuilderArgs
    /\ job = None
    /\ should_delete = None

\* JobBuilder applied to every argument list of BuilderArgs
SpecBuilder == InitJobBuilder /\ [][NextBuilder]_vars

NextEnv ==
    \/ should_delete_pod_call
    \/ env_changes

InitEnv ==
    /\ InitRegistry /\ InitClient /\ envv \in EnvInputs
    /\ InitService /\ crate = "pipeline" /\ InitBuilder

\* should_delete_pod applied to every value of EnvInputs
SpecEnv == InitEnv /\ [][NextEnv]_vars

(***************************************************************************)
(* Properties of KubeService::run.                                         *)
(***************************************************************************)
\* C10: run() survives a request whose decoding or submission fails: it
\* neither panics nor returns early, so it goes on to the next request.
C10_LoopSurvives ==
    failed # <<>> => dpc \in {"next", "launch", "returned_ok"}

\* C11: once a workload is submitted its watcher and its log follower run as
\* concurrent units of their own, and the loop takes the next request
\* without waiting for an earlier workload to end.
C11_WatchersSpawned ==
    jobs # <<>> => (wpc # "idle" /\ fpc # "idle")

\* C23: every Job launch_job submits carries the name and the image of the
\* run request it was launched for, so that requests with distinct ids give
\* workloads with distinct names.
C23_NameFromRequest ==
    [][ Len(jobs') = Len(jobs) + 1 =>
           /\ from_string(request[1]) # None
           /\ jobs'[Len(jobs')].name = request[1].job_id
           /\ jobs'[Len(jobs')].image = request[1].image
      ]_vars

(***************************************************************************)
(* Properties of JobBuilder.                                               *)
(***************************************************************************)
Keys(map) == {kv[1] : kv \in map}

ResourceKeys == {"cpu", "memory", "ephemeral-storage"}

\* C13: every Job built has backoff_limit 0, restart policy "Never" and
\* active_deadline_seconds equal to the time_limit it was built from.
C13_JobPolicy ==
    job # None =>
        /\ job[1].backoff_limit = Some(0)
        /\ job[1].restart_policy = Some("Never")
        /\ job[1].active_deadline_seconds = Some(args.time_limit)

\* C14: the Job built by zefiro-job has ttl_seconds_after_finished equal to
\* max(time_limit, 300), never below 300.
C14_TtlFloor ==
    (job # None /\ job[1].by = "zefiro-job") =>
        /\ job[1].ttl_seconds_after_finished[1] >= 300
        /\ usize_gt(args.time_limit, usize(300)) =>
              /\ args.time_limit[1] = 0
              /\ args.time_limit[2] = 0
              /\ job[1].ttl_seconds_after_finished[1]
                    = args.time_limit[3] * LimbBase + args.time_limit[4]

\* C15: in the Job built by zefiro-job the limits map is absent when
\* max_resources is None and has exactly the keys cpu, memory and
\* ephemeral-storage otherwise; requests always has exactly those keys.
C15_LimitsOmitted ==
    (job # None /\ job[1].by = "zefiro-job") =>
        LET res == job[1].container.resources[1]
        IN  /\ args.max_resources = None => res.limits = None
            /\ args.max_resources # None =>
                  /\ res.limits # None
                  /\ Keys(res.limits[1]) = ResourceKeys
                  /\ Cardinality(res.limits[1]) = 3
            /\ res.requests # None
            /\ Keys(res.requests[1]) = ResourceKeys
            /\ Cardinality(res.requests[1]) = 3

C15_Witness ==
    /\ job # None
    /\ job[1].by = "zefiro-job"
    /\ args.max_resources = None
    /\ job[1].container.resources[1].limits = None
    /\ <<"memory", <<"1", "0", "2", "4", "M">>>>
          \in job[1].container.resources[1].requests[1]

\* the quantities the documentation and a reading of Display give for the
\* values of ResourceValues
RenderedQuantities(res) ==
    CASE res.ram = 1024 /\ res.disk = 2048 ->
            { <<"cpu", <<"2">>>>,
              <<"memory", <<"1", "0", "2", "4", "M">>>>,
              <<"ephemeral-storage", <<"2", "0", "4", "8", "M">>>> }
      [] res.ram = 512 ->
            { <<"cpu", <<"0", ".", "5">>>>,
              <<"memory", <<"5", "1", "2", "M">>>>,
              <<"ephemeral-storage", <<"5", "1", "2", "M">>>> }
      [] res.ram = 10000 ->
            { <<"cpu", <<"8">>>>,
              <<"memory", <<"1", "0", "0", "0", "0", "M">>>>,
              <<"ephemeral-storage", <<"1", "0", "2", "4", "M">>>> }

\* C22: to_dict renders memory as "<ram>M", ephemeral-storage as "<disk>M"
\* and cpu as the bare number, under exactly the keys cpu, memory and
\* ephemeral-storage; (2.0, 1024, 2048) gives cpu "2", memory "1024M",
\* ephemeral-storage "2048M".
C22_ToDict ==
    (job # None /\ job[1].by = "zefiro-job") =>
        LET res == job[1].container.resources[1]
        IN  /\ res.requests = Some(RenderedQuantities(args.min_resources))
            /\ args.max_resources # None =>
                  res.limits = Some(RenderedQuantities(args.max_resources[1]))

C22_Witness ==
    /\ job # None
    /\ job[1].by = "zefiro-job"
    /\ job[1].container.resources[1].requests[1]
          = { <<"cpu", <<"2">>>>,
              <<"memory", <<"1", "0", "2", "4", "M">>>>,
              <<"ephemeral-storage", <<"2", "0", "4", "8", "M">>>> }
    /\ job[1].container.resources[1].limits # None
    /\ <<"cpu", <<"0", ".", "5">>>>
          \in job[1].container.resources[1].limits[1]

\* C16: in the Job built by zefiro-kube-controller the limits map is omitted
\* when max_resources is None.
C16_ControllerLimitsOmitted ==
    (job # None /\ job[1].by = "zefiro-kube-controller"
        /\ args.max_resources = None)
      => job[1].container.resources[1].limits = None

(***************************************************************************)
(* Properties of should_delete_pod.                                        *)
(***************************************************************************)
\* c and d are the same character up to ASCII case
SameLetter(c, d) ==
    \/ c = d
    \/ \E k \in 1..Len(UpperCase) : {c, d} = {UpperCase[k], LowerCase[k]}

EqIgnoreCase(str, word) ==
    /\ Len(str) = Len(word)
    /\ \A i \in 1..Len(str) : SameLetter(str[i], word[i])

\* C17: should_delete_pod returns false exactly when the variable is set to
\* "false", "no" or "0" in any letter case, and true for every other value,
\* unset and empty included.
C17_ShouldDeletePod ==
    should_delete # None =>
        (should_delete[1] = FALSE
            <=> /\ envv # None
                /\ \/ EqIgnoreCase(envv[1], <<"f", "a", "l", "s", "e">>)
                   \/ EqIgnoreCase(envv[1], <<"n", "o">>)
                   \/ envv[1] = <<"0">>)

C17_Witness ==
    /\ envv = Some(<<"F", "a", "L", "s", "E">>)
    /\ should_delete = Some(FALSE)

(***************************************************************************)
(* Properties of the JobMonitor.                                           *)
(***************************************************************************)
Range(s) == {s[i] : i \in 1..Len(s)}

AttemptedNames(p) == [i \in 1..Len(attempted[p]) |-> attempted[p][i].pod_name]

\* the caller holds the async lock
InCS(p) == rpc[p] \in {"add_locked", "remove_locked", "cleanup_client",
                       "cleanup_list", "cleanup_loop"}

\* C1: from an empty registry, add(x), add(y), remove(x) with x # y leaves
\* exactly y, a second remove(x) changes nothing, and any remove of an id
\* that is not registered returns normally with the registry unchanged.
C1_AddRemove ==
    [][ /\ \A x, y \in PodIds :
              x # y =>
                /\ hist' = <<<<"add", x>>, <<"add", y>>, <<"remove", x>>>>
                      => pod_names' = <<y>>
                /\ hist' = <<<<"add", x>>, <<"add", y>>, <<"remove", x>>,
                             <<"remove", x>>>>
                      => pod_names' = <<y>>
        /\ \A p \in Procs :
              (rpc[p] = "remove_locked" /\ rpc'[p] # "remove_locked"
                    /\ rarg[p] \notin Range(pod_names))
                 => (pod_names' = pod_names /\ rpc'[p] = "idle")
      ]_vars

C1_Witness ==
    /\ hist = <<<<"add", "a">>, <<"add", "b">>, <<"remove", "a">>,
                <<"remove", "a">>>>
    /\ pod_names = <<"b">>

\* C2 (as stated): whenever cleanup returns, it has attempted one deletion
\* per registered id and the registry is empty.
C2_Original ==
    [][ \A p \in Procs :
          (rpc[p] \in {"cleanup_client", "cleanup_loop"} /\ rpc'[p] = "idle")
             => (AttemptedNames(p) = pod_names /\ pod_names' = <<>>)
      ]_vars

\* C2 (amended): a cleanup that obtained its cluster client has, when it
\* returns, attempted one deletion for every registered id, in order, whatever
\* the outcome of each deletion, and leaves the registry empty.
C2_CleanupSweep ==
    [][ \A p \in Procs :
          (rpc[p] = "cleanup_loop" /\ rpc'[p] = "idle")
             => (AttemptedNames(p) = pod_names /\ pod_names' = <<>>)
      ]_vars

C2_Witness ==
    \E p \in Procs :
        /\ rpc[p] = "idle"
        /\ Len(attempted[p]) = 2
        /\ attempted[p][1] = [pod_name |-> "a", ok |-> FALSE]
        /\ attempted[p][2] = [pod_name |-> "b", ok |-> TRUE]
        /\ pod_names = <<>>
        /\ hist = <<<<"add", "a">>, <<"add", "b">>, <<"cleanup">>>>

\* C3: at most one caller is inside add/remove/cleanup's critical section,
\* the registry does not change while a cleanup is reading it, and the ids
\* cleanup tried to delete are the ids it clears.
C3_MutualExclusion ==
    [][ /\ Cardinality({p \in Procs : InCS(p)}) <= 1
        /\ \A p \in Procs :
              rpc[p] \in {"cleanup_list", "cleanup_loop"} =>
                /\ rpc'[p] # "idle" => pod_names' = pod_names
                /\ rpc'[p] = "idle" => AttemptedNames(p) = pod_names
      ]_vars

C3_Witness ==
    \E p, q \in Procs :
        /\ rpc[p] = "cleanup_loop"
        /\ ci[p] = 2
        /\ Len(pod_names) = 2
        /\ rpc[q] = "add_wait"

\* C27: no registration is lost to a concurrent cleanup: an id leaves the
\* registry only through a remove of that id or through a cleanup that has
\* attempted its deletion, an add never takes effect between cleanup's
\* reading of the list and its clearing, and an add that takes effect
\* appends its id.
C27_NoLostRegistration ==
    [][ /\ \A id \in PodIds :
              (id \in Range(pod_names) /\ id \notin Range(pod_names')) =>
                 \E p \in Procs :
                    \/ rpc[p] = "remove_locked" /\ rarg[p] = id
                    \/ /\ rpc[p] = "cleanup_loop"
                       /\ id \in Range(AttemptedNames(p))
        /\ \A p \in Procs :
              (rpc[p] = "add_locked" /\ rpc'[p] = "idle") =>
                 /\ pod_names' = Append(pod_names, rarg[p])
                 /\ \A q \in Procs :
                       rpc[q] \notin {"cleanup_client", "cleanup_list",
                                      "cleanup_loop"}
      ]_vars

C27_Witness ==
    /\ hist = <<<<"add", "a">>, <<"cleanup">>, <<"add", "b">>>>
    /\ pod_names = <<"b">>
    /\ \E p \in Procs : AttemptedNames(p) = <<"a">>
    /\ \A p \in Procs : rpc[p] = "idle"

\* the caller holds the list mutex
HoldsInner(p) == inner = p

\* C28: add, remove and cleanup take the async lock before the list mutex
\* and hold neither after they return, and under fair scheduling every
\* call that has started eventually returns.
C28_NoDeadlock ==
    /\ [](\A p \in Procs :
            /\ HoldsInner(p) => lock = p
            /\ lock = p => InCS(p)
            /\ rpc[p] = "idle" => (lock # p /\ inner # p))
    /\ \A p \in Procs : (rpc[p] # "idle") ~> (rpc[p] = "idle")

C28_Witness ==
    \E p, q \in Procs :
        /\ p # q
        /\ rpc[p] = "cleanup_loop"
        /\ inner = p
        /\ rpc[q] = "remove_wait"
        /\ ci[p] <= Len(pod_names)

\* C29: a cleanup whose client creation fails returns with no deletion
\* attempted, the registry as it was and both locks free.
C29_CleanupNoClient ==
    [][ \A p \in Procs :
          (rpc[p] = "cleanup_client" /\ rpc'[p] = "idle") =>
             /\ pod_names' = pod_names
             /\ attempted'[p] = <<>>
             /\ hist' = hist
             /\ lock' = NoProc
             /\ inner' = NoProc
      ]_vars

C29_Witness ==
    /\ pod_names = <<"a", "b">>
    /\ hist = <<<<"add", "a">>, <<"add", "b">>>>
    /\ nops = 3
    /\ \A p \in Procs : rpc[p] = "idle" /\ attempted[p] = <<>>
    /\ lock = NoProc

\* occurrences of id the calls of h leave, from an empty registry
RECURSIVE Occurrences(_, _)
Occurrences(h, id) ==
    IF h = <<>> THEN 0
    ELSE LET before == Occurrences(SubSeq(h, 1, Len(h) - 1), id)
             last == h[Len(h)]
         IN  CASE last = <<"cleanup">> -> 0
               [] last = <<"add", id>> -> before + 1
               [] last = <<"remove", id>> ->
                     IF before > 0 THEN before - 1 ELSE 0
               [] OTHER -> before

\* C30: remove(id) deletes the first occurrence of id and no other: the
\* registry holds id as many times as add(id) was called minus the
\* remove(id) calls that found it, counted since the last cleanup.
C30_RemoveOne ==
    [][ /\ \A id \in PodIds :
              Cardinality({i \in 1..Len(pod_names') : pod_names'[i] = id})
                 = Occurrences(hist', id)
        /\ \A p \in Procs :
              (rpc[p] = "remove_locked" /\ rpc'[p] = "idle"
                    /\ rarg[p] \in Range(pod_names)) =>
                 \E i \in 1..Len(pod_names) :
                    /\ pod_names[i] = rarg[p]
                    /\ \A j \in 1..(i - 1) : pod_names[j] # rarg[p]
                    /\ pod_names' = SubSeq(pod_names, 1, i - 1)
                                     \o SubSeq(pod_names, i + 1, Len(pod_names))
      ]_vars

C30_Witness ==
    /\ hist = <<<<"add", "a">>, <<"add", "a">>, <<"remove", "a">>>>
    /\ pod_names = <<"a">>

\* C19: add of an id that is already registered changes nothing: the
\* registry never holds the same id twice.
C19_NoDuplicates ==
    \A i, j \in 1..Len(pod_names) : pod_names[i] = pod_names[j] => i = j

(***************************************************************************)
(* Properties of KubernetesClient.                                         *)
(***************************************************************************)
\* the last api.get answer was a terminal phase
TerminalObserved ==
    /\ polls.last # None
    /\ polls.last[1].kind = "phase"
    /\ polls.last[1].phase \in {"Succeeded", "Failed"}

\* ... and its first container status carried a terminated state
TerminatedObserved ==
    /\ TerminalObserved
    /\ polls.last[1].cs.terminated # None

\* an api.get answer that is neither an error nor a terminal phase
IsNonTerminal(r) ==
    \/ r.kind \in {"no_status", "no_phase"}
    \/ r.kind = "phase" /\ r.phase \in {"Pending", "Running"}

DeleteFailed ==
    deletes # <<>> /\ deletes[Len(deletes)].result = "KubeError"

\* C4: once wait_for_completion has returned after observing a terminal
\* phase, the registry no longer holds the workload's id, whether or not
\* deletion on completion is enabled.
C4_RemovedAfterTerminal ==
    (wpc = "returned" /\ TerminalObserved) => PodName \notin Range(pod_names)

\* C5: a wait_for_completion that has started polling eventually returns
\* (with a result, an error or a timeout): it never polls forever.
C5_WatchTerminates == (wpc = "poll") ~> (wpc = "returned")

C8_IdempotentDelete ==
    \A i \in 1..Len(deletes) :
        LET d == deletes[i]
        IN  /\ (d.outcome.kind = "deleted" \/ d.outcome.code = 404)
                  => d.result = "Ok"
            /\ (d.outcome.kind # "deleted" /\ d.outcome.code # 404)
                  => d.result = "KubeError"

C8_Witness ==
    /\ deletes # <<>>
    /\ deletes[1].outcome = [kind |-> "api", code |-> 404]
    /\ deletes[1].result = "Ok"
    /\ wpc = "returned"
    /\ wres.tag = "Ok"

IsChunk(item) == item.kind = "chunk"

\* the text follow_logs keeps of each chunk of the model
ExpectedEntry(bytes) ==
    IF bytes = <<" ", "y", "\n">> THEN <<"y">> ELSE <<"x", "U+FFFD">>

\* C9: tool_log holds one LogEntry per chunk read, in arrival order; a read
\* error ends following with Ok, adds no entry, and no step of follow_logs
\* changes what wait_for_completion does or returns.
C9_FollowLogs ==
    [][ /\ LET read == SelectSeq(chunks_read', IsChunk)
           IN  /\ Len(tool_log') = Len(read)
               /\ \A i \in 1..Len(read) :
                     /\ tool_log'[i].entry = ExpectedEntry(read[i].bytes)
                     /\ tool_log'[i].pod_name = PodName
        /\ \A i \in 1..Len(chunks_read') :
              chunks_read'[i].kind # "chunk" =>
                 (i = Len(chunks_read') /\ fpc' = "returned" /\ fres' = "Ok")
        /\ (fpc' # fpc \/ tool_log' # tool_log) =>
              (wpc' = wpc /\ wres' = wres
                 /\ completion_result' = completion_result)
      ]_vars

\* C12: a submit_pod that returns Ok was accepted by the cluster, has pushed
\* the pod onto the registry and has made it the current pod; a submit_pod
\* that the cluster rejects returns the error and changes neither.
C12_RegisteredIffAccepted ==
    [][ (spc # "returned" /\ spc' = "returned") =>
           IF spc = "created"
           THEN /\ sres' = "Ok"
                /\ pod' = Some(PodName)
                /\ pod_names' = Append(pod_names, PodName)
           ELSE /\ sres' = "KubeError"
                /\ pod' = pod
                /\ pod_names' = pod_names
      ]_vars

C12_Witness ==
    /\ sres = "Ok"
    /\ pod = Some(PodName)
    /\ pod_names = <<PodName>>
    /\ wpc = "idle"

\* CALRISSIAN_DELETE_PODS is "false", "no" or "0" in some letter case
DeletionDisabled ==
    /\ envv # None
    /\ \/ EqIgnoreCase(envv[1], <<"f", "a", "l", "s", "e">>)
       \/ EqIgnoreCase(envv[1], <<"n", "o">>)
       \/ envv[1] = <<"0">>

\* C18: wait_for_completion issues a delete only when deletion on completion
\* is enabled and the pod's terminal phase has been observed, and then
\* exactly once; with deletion disabled it issues none.
C18_DeleteOnce ==
    /\ Len(deletes) <= 1
    /\ deletes # <<>> =>
          /\ ~DeletionDisabled
          /\ TerminalObserved
          /\ deletes[1].pod_name = PodName
    /\ (wpc = "returned" /\ TerminalObserved /\ ~DeletionDisabled) =>
          Len(deletes) = 1

C18_Witness ==
    /\ wpc = "returned"
    /\ TerminalObserved
    /\ envv = Some(<<"t", "r", "u", "e">>)
    /\ Len(deletes) = 1
    /\ wres.tag = "Ok"
    /\ PodName \notin Range(pod_names)

\* C20: the watcher holds an explicit JobStatus for its pod: Queued from
\* submit time, Running once phase Running is observed, Done on Succeeded
\* and Failed on Failed, and a status of Done, Failed or Stopped is final.
C20_LifecycleExposed ==
    /\ sres = "Ok" => (job_status # None /\ job_status[1] \in JobStatus)
    /\ (sres = "Ok" /\ wpc = "idle") => job_status = Some("Queued")
    /\ (polls.last # None /\ polls.last[1].kind = "phase") =>
          /\ polls.last[1].phase = "Running" => job_status = Some("Running")
          /\ polls.last[1].phase = "Succeeded" => job_status = Some("Done")
          /\ polls.last[1].phase = "Failed" => job_status = Some("Failed")

\* s is an initial part of t
IsPrefix(s, t) == Len(s) <= Len(t) /\ SubSeq(t, 1, Len(s)) = s

\* C21: the log buffer only grows at its end, one entry at a time; the
\* CompletionResult carries the buffer as it was when the result was
\* assembled, and an entry appended afterwards changes neither the stored
\* nor the returned CompletionResult.
C21_LogAppendOnly ==
    [][ /\ IsPrefix(tool_log, tool_log')
        /\ Len(tool_log') <= Len(tool_log) + 1
        /\ (completion_result = None /\ completion_result' # None) =>
              completion_result'[1].log = tool_log'
        /\ completion_result' # None =>
              IsPrefix(completion_result'[1].log, tool_log')
        /\ (tool_log' # tool_log /\ completion_result # None) =>
              (completion_result' = completion_result /\ wres' = wres)
        /\ wres'.tag = "Ok" => wres'.value = completion_result'
      ]_vars

C21_Witness ==
    /\ Len(tool_log) = 2
    /\ completion_result # None
    /\ completion_result[1].log = <<tool_log[1]>>
    /\ wres.tag = "Ok"
    /\ wres.value[1].log = <<tool_log[1]>>
    /\ fpc = "returned"

\* C24: a status poll that fails, or a delete on completion that fails with
\* anything but 404, makes wait_for_completion return that error at once
\* with the registry as it was, and the id stays registered afterwards.
C24_ErrorKeepsRegistration ==
    [][ /\ (wpc = "poll" /\ wpc' # "poll" /\ polls'.last[1].kind = "err") =>
              /\ wpc' = "returned"
              /\ wres' = [tag |-> "KubeError", value |-> None]
              /\ pod_names' = pod_names
              /\ deletes' = deletes
        /\ (wpc = "delete" /\ wpc' # "delete"
               /\ deletes'[Len(deletes')].outcome.kind # "deleted"
               /\ deletes'[Len(deletes')].outcome.code # 404) =>
              /\ wpc' = "returned"
              /\ wres' = [tag |-> "KubeError", value |-> None]
              /\ pod_names' = pod_names
        /\ wres.tag = "KubeError" =>
              (wres' = wres /\ pod_names' = pod_names
                 /\ PodName \in Range(pod_names))
      ]_vars

C24_Witness ==
    /\ wpc = "returned"
    /\ wres.tag = "KubeError"
    /\ deletes # <<>>
    /\ deletes[1].outcome = [kind |-> "api", code |-> 500]
    /\ completion_result # None
    /\ pod_names = <<PodName>>

C26_PodNotSet ==
    [][ /\ (wpc = "idle" /\ wpc' # "idle" /\ pod = None) =>
              /\ wpc' = "returned"
              /\ wres' = [tag |-> "PodNotSet", value |-> None]
              /\ polls' = polls /\ deletes' = deletes
              /\ pod_names' = pod_names /\ tool_log' = tool_log
              /\ completion_result' = completion_result
        /\ (fpc = "idle" /\ fpc' # "idle" /\ pod = None) =>
              /\ fpc' = "returned"
              /\ fres' = "PodNotSet"
              /\ chunks_read' = chunks_read
              /\ pod_names' = pod_names /\ tool_log' = tool_log
              /\ completion_result' = completion_result
        /\ wres.tag = "PodNotSet" => wres' = wres
        /\ fres = "PodNotSet" => fres' = fres
        /\ wres'.tag = "PodNotSet" => (polls'.last = None /\ deletes' = <<>>)
        /\ fres' = "PodNotSet" => chunks_read' = <<>>
      ]_vars

C26_Witness ==
    /\ spc = "returned"
    /\ sres = "KubeError"
    /\ pod = None
    /\ wres.tag = "PodNotSet"
    /\ fres = "PodNotSet"
    /\ pod_names = <<>>
    /\ tool_log = <<>>
    /\ completion_result = None

C9_Witness ==
    /\ Len(chunks_read) = 3
    /\ chunks_read[1].bytes = <<" ", "y", "\n">>
    /\ chunks_read[2].bytes = <<"x", "0xFF">>
    /\ chunks_read[3].kind = "error"
    /\ Len(tool_log) = 2
    /\ tool_log[1].entry = <<"y">>
    /\ tool_log[2].entry = <<"x", "U+FFFD">>
    /\ fpc = "returned"
    /\ fres = "Ok"
    /\ wpc = "returned"
    /\ wres.tag = "Ok"

====
